---- MODULE Spec2Model ----
(***************************************************************************)
(* Image import service: the HTTP handler import_images of                 *)
(* backend/main.py (the Job Dispatcher), the Redis key-value store it      *)
(* writes job states to, the images table, and the Celery task             *)
(* import_google_drive_images of worker/worker.py (the Import Worker)      *)
(* with Celery's retry protocol.                                           *)
(*                                                                         *)
(* Time is the wall clock in whole seconds: int(time.time()) is the clock  *)
(* itself, and two calls between which no Tick happens fall in the same    *)
(* clock second.                                                           *)
(***************************************************************************)
EXTENDS Integers, Sequences, FiniteSets, TLC

\* ---------------------------------------------------------------- bounds
\* What the environment does in one behaviour, counted together: calls of
\* POST /import/google-drive and of GET /images, tasks published to the
\* broker, exceptions raised in calls and executions, and advances of the
\* clock other than an elapsing retry countdown.
MaxEvents == 6

\* ------------------------------------------------------ program constants
Expire         == 3600   \* redis_client.set(..., ex=3600)
max_retries    == 3      \* @app.task(bind=True, max_retries=3)
RetryCountdown == 60     \* self.retry(exc=e, countdown=60)

SourceRefs == {"", "a"}               \* folder_url values of the requests
TickSteps  == {1, RetryCountdown, Expire}  \* by how much the clock advances

VARIABLES
    clock,      \* time.time(), in seconds
    nticks,     \* number of clock advances other than elapsing countdowns
    redis,      \* Redis db 0: key (task id) -> job state, live keys only
    db,         \* committed rows of table images, in insertion order
    queue,      \* task messages waiting in the broker
    results,    \* per Celery task: the values its executions returned, in order
    calls,      \* the responses of import_images so far, in call order
    listed      \* the response of the latest GET /images, and how many there were

vars == <<clock, nticks, redis, db, queue, results, calls, listed>>

\* ------------------------------------------------------------ Job State
\* f"task_{int(time.time())}": the id is a function of the clock second only.
TaskId(now) == now

\* The JSON document written by redis_client.set in import_images.
PendingState(s, now) ==
    [status |-> "pending", folder_url |-> s, images_imported |-> 0,
     created_at |-> now, expires |-> now + Expire]

\* redis_client.set(key, value, ex=...): upsert, resets the expiry.
RedisSet(store, k, v) == [x \in DOMAIN store \cup {k} |-> IF x = k THEN v ELSE store[x]]

\* Redis GET: absent for a key never written or already expired.
Absent == [status |-> "absent"]
RedisGet(k) == IF k \in DOMAIN redis THEN redis[k] ELSE Absent

\* Key expiry as the clock passes the expiry instant.
Expired(store, now) == {k \in DOMAIN store : store[k].expires <= now}
PurgeNothing(store, now) == store
Purge(store, now) == [k \in DOMAIN store \ Expired(store, now) |-> store[k]]

\* ---------------------------------------------------------- Record Store
\* dummy_images of import_images: two rows named after the task id.
ApiDummyImages(t) ==
    << [name |-> <<"imported_image", t, 1>>, google_drive_id |-> <<t, 1>>,
        source |-> "google_drive"],
       [name |-> <<"imported_image", t, 2>>, google_drive_id |-> <<t, 2>>,
        source |-> "google_drive"] >>

\* dummy_images of import_google_drive_images: three rows, whose
\* google_drive_id is f"drive_{task_id}_{n}".
WorkerDummyImagesByItem(t) ==
    << [name |-> <<"sample", 1>>, google_drive_id |-> <<0, 1>>, source |-> "google_drive"],
       [name |-> <<"sample", 2>>, google_drive_id |-> <<0, 2>>, source |-> "google_drive"],
       [name |-> <<"sample", 3>>, google_drive_id |-> <<0, 3>>, source |-> "google_drive"] >>
WorkerDummyImages(t) ==
    << [name |-> <<"sample", 1>>, google_drive_id |-> <<t, 1>>, source |-> "google_drive"],
       [name |-> <<"sample", 2>>, google_drive_id |-> <<t, 2>>, source |-> "google_drive"],
       [name |-> <<"sample", 3>>, google_drive_id |-> <<t, 3>>, source |-> "google_drive"] >>

\* connection.execute(db.insert(images).values(**img)) for each row, then
\* connection.commit(): the rows get increasing ids after the last one used
\* (gaps left by rolled back inserts are not modelled; only the order of the
\* ids is observable).
WithIds(rows, last) ==
    [i \in 1..Len(rows) |->
        [id |-> last + i, name |-> rows[i].name,
         google_drive_id |-> rows[i].google_drive_id, source |-> rows[i].source]]

\* The rows the insert loop adds when the inserts at the positions in keep
\* succeed: a failing insert is skipped (continue) and the loop goes on.
\* Every insert that succeeded is part of the commit that ends the loop.
RECURSIVE PickUntilFailure(_, _, _)
PickUntilFailure(rows, keep, i) ==
    IF i > Len(rows) \/ i \notin keep THEN <<>>
    ELSE <<rows[i]>> \o PickUntilFailure(rows, keep, i + 1)

RECURSIVE Pick(_, _, _)
Pick(rows, keep, i) ==
    IF i > Len(rows) THEN <<>>
    ELSE (IF i \in keep THEN <<rows[i]>> ELSE <<>>) \o Pick(rows, keep, i + 1)

\* The exceptions raised so far: the calls answered 500 and the executions
\* that returned "failed".
RECURSIVE CountFailed(_)
CountFailed(rs) ==
    IF rs = <<>> THEN 0
    ELSE (IF Head(rs).status = "failed" THEN 1 ELSE 0) + CountFailed(Tail(rs))

RECURSIVE SumFailed(_, _)
SumFailed(res, cs) ==
    IF cs = {} THEN 0
    ELSE LET c == CHOOSE x \in cs : TRUE
         IN CountFailed(res[c]) + SumFailed(res, cs \ {c})

Faults ==
    Cardinality({i \in 1..Len(calls) : calls[i].code = 500})
        + SumFailed(results, DOMAIN results)

Events == Len(calls) + listed.n + Cardinality(DOMAIN results) + Faults + nticks

\* --------------------------------------------------------- import_images
SubmitFaults == {"none", "redis", "db"}

\* The rows import_images commits: the insert block runs after the Redis
\* write inside the same try, so any exception before the commit leaves none.
SubmitRowsEager(fault, t) ==
    IF fault \in {"none", "redis"} THEN ApiDummyImages(t) ELSE <<>>
SubmitRows(fault, t) ==
    IF fault = "none" THEN ApiDummyImages(t) ELSE <<>>

\* The HTTP response: 200 with the task id and the folder url, or
\* HTTPException(500) with the message of the exception that was raised.
SubmitResponse(s, fault, t) ==
    IF fault = "none"
    THEN [code |-> 200, folder_url |-> s, task_id |-> t, images_added |-> 2]
    ELSE [code |-> 500, detail |-> fault]

Submit(s, fault) ==
    /\ Events + (IF fault = "none" THEN 1 ELSE 2) <= MaxEvents
    /\ LET t == TaskId(clock) IN
        /\ redis' = IF fault = "redis" THEN redis
                    ELSE RedisSet(redis, t, PendingState(s, clock))
        /\ db' = db \o WithIds(SubmitRows(fault, t), Len(db))
        /\ calls' = Append(calls, SubmitResponse(s, fault, t))
    /\ UNCHANGED <<clock, nticks, queue, results, listed>>

\* ------------------------------------------- import_google_drive_images
\* A producer publishes the task (import_google_drive_images.delay(url, id))
\* for a request import_images has answered with a task id, once per answer:
\* a fresh Celery task with retries = 0, deliverable at once.  The Celery
\* task is named by the number of the call.  import_images itself publishes
\* nothing.
SendTask(i) ==
    /\ i \in 1..Len(calls)
    /\ calls[i].code = 200
    /\ i \notin DOMAIN results
    /\ Events < MaxEvents
    /\ queue' = queue \cup {[cid |-> i, folder_url |-> calls[i].folder_url,
                             task_id |-> calls[i].task_id, retries |-> 0, eta |-> clock]}
    /\ results' = [c \in DOMAIN results \cup {i} |-> IF c = i THEN <<>> ELSE results[c]]
    /\ UNCHANGED <<clock, nticks, redis, db, calls, listed>>

\* self.retry: request.retries + 1 > max_retries raises the original
\* exception, otherwise the task is re-published and Retry is raised.
RetriesExhaustedLate(m) == m.retries > max_retries
RetriesExhausted(m) == m.retries + 1 > max_retries

Republished(m, now) ==
    IF RetriesExhausted(m) THEN {}
    ELSE {[m EXCEPT !.retries = @ + 1, !.eta = now + RetryCountdown]}

\* "error": an exception in the try body (engine is None, connect, reflect
\* or commit fails); the connection is closed without a commit.
RunFaults == {"none", "error"}
\* The sets of items whose insert succeeds that the model tries.
OkSets == {{}, {1, 3}, {1, 2, 3}}

CompletedResult(m, n) ==
    [status |-> "completed", task_id |-> m.task_id, images_imported |-> n,
     folder_url |-> m.folder_url, error |-> ""]
\* except Exception as e: ... self.retry raises Retry or e, both of which the
\* inner except Exception catches, so the body returns the failed dict.
FailedResult(m, fault) ==
    [status |-> "failed", task_id |-> m.task_id, images_imported |-> 0,
     folder_url |-> m.folder_url, error |-> fault]

\* The rows a failed execution leaves in the table: the exception leaves the
\* with block before connection.commit() has returned, the connection is
\* closed and what the inserts did is rolled back.
FailedRowsKept(m, ok) == Pick(WorkerDummyImages(m.task_id), ok, 1)
FailedRows(m, ok) == <<>>

\* One execution of the task body by a worker, for a deliverable message;
\* ok is the set of items whose insert succeeds.  The body reads and writes
\* the images table only: the Redis key of the job is not touched.
Execute(m, fault, ok) ==
    /\ m \in queue
    /\ m.eta <= clock
    /\ fault # "none" => Events < MaxEvents
    /\ IF fault = "none"
       THEN /\ db' = db \o WithIds(Pick(WorkerDummyImages(m.task_id), ok, 1), Len(db))
            /\ results' = [results EXCEPT ![m.cid] = Append(@, CompletedResult(m, Cardinality(ok)))]
            /\ queue' = queue \ {m}
       ELSE /\ db' = db \o WithIds(FailedRows(m, ok), Len(db))
            /\ results' = [results EXCEPT ![m.cid] = Append(@, FailedResult(m, fault))]
            /\ queue' = (queue \ {m}) \cup Republished(m, clock)
    /\ UNCHANGED <<clock, nticks, redis, calls, listed>>

\* ------------------------------------------------------------ get_images
\* select(images).order_by(images.c.id.desc()): the rows by descending id.
RECURSIVE ByIdDesc(_)
ByIdDesc(rows) ==
    IF rows = {} THEN <<>>
    ELSE LET top == CHOOSE r \in rows : \A q \in rows : q.id <= r.id
         IN <<top>> \o ByIdDesc(rows \ {top})

\* The dict returned for a row (the defaults for a missing size, storage_url
\* and source do not apply to the rows the program inserts).
ImageResponse(r) == [id |-> r.id, name |-> r.name, source |-> r.source]

ListFaults == {"none", "error"}

\* The body get_images returns: [] when the table does not exist, [] from
\* the except branch when anything raises, the rows newest first otherwise.
ListBody(table, has_table, fault) ==
    IF fault # "none" \/ ~has_table THEN <<>>
    ELSE LET sorted == ByIdDesc({table[i] : i \in 1..Len(table)})
         IN [i \in 1..Len(sorted) |-> ImageResponse(sorted[i])]

\* get_images has no raising path: the whole body is inside try and the
\* except branch returns [].
ListResponseRaising(table, has_table, fault) ==
    IF fault # "none" THEN [code |-> 500, body |-> <<>>]
    ELSE [code |-> 200, body |-> ListBody(table, has_table, fault)]

ListResponse(table, has_table, fault) ==
    [code |-> 200, body |-> ListBody(table, has_table, fault)]

NotCalled == [n |-> 0, code |-> 0, body |-> <<>>]

\* GET /images.  Whether the table exists is open as long as no row has
\* been committed (metadata.create_all at start-up may have failed).
GetImages(has_table, fault) ==
    /\ has_table \/ db = <<>>
    /\ Events < MaxEvents
    /\ listed' = [n |-> listed.n + 1,
                  code |-> ListResponse(db, has_table, fault).code,
                  body |-> ListResponse(db, has_table, fault).body]
    /\ UNCHANGED <<clock, nticks, redis, db, queue, results, calls>>

\* ----------------------------------------------------------------- time
\* The clock advances; Redis drops the keys whose expiry has passed.  The
\* clock advances by a retry countdown exactly when one is running.
Waiting == \E m \in queue : m.eta > clock

Tick(d) ==
    /\ IF d = RetryCountdown THEN Waiting ELSE Events < MaxEvents
    /\ clock' = clock + d
    /\ nticks' = IF d = RetryCountdown THEN nticks ELSE nticks + 1
    /\ redis' = Purge(redis, clock + d)
    /\ UNCHANGED <<db, queue, results, calls, listed>>

\* -------------------------------------------------------- specification
Init ==
    /\ clock = 0
    /\ nticks = 0
    /\ redis = <<>>
    /\ db = <<>>
    /\ queue = {}
    /\ results = <<>>
    /\ calls = <<>>
    /\ listed = NotCalled

Next ==
    \/ \E s \in SourceRefs, fault \in SubmitFaults : Submit(s, fault)
    \/ \E i \in 1..Len(calls) : SendTask(i)
    \/ \E m \in queue, fault \in RunFaults, ok \in OkSets : Execute(m, fault, ok)
    \/ \E d \in TickSteps : Tick(d)

\* The import pipeline: dispatcher, worker and the two stores.
Spec == Init /\ [][Next]_vars

\* The pipeline together with the readers of GET /images.
NextApi ==
    \/ Next
    \/ \E has_table \in BOOLEAN, fault \in ListFaults : GetImages(has_table, fault)

ApiSpec == Init /\ [][NextApi]_vars

\* The broker delivers every deliverable message to a worker, which runs the
\* task body to its end, and time passes.
FairSpec ==
    /\ Spec
    /\ WF_vars(\E m \in queue, fault \in RunFaults, ok \in OkSets : Execute(m, fault, ok))
    /\ WF_vars(\E d \in TickSteps : Tick(d))

\* ------------------------------------------------------------ vocabulary
\* Call i was answered 200 with a task id.
Returned(i) == i \in 1..Len(calls) /\ calls[i].code = 200

\* The step is a call of import_images, answered 200.
SubmitReturns == Len(calls') = Len(calls) + 1 /\ calls'[Len(calls')].code = 200

\* A worker has picked up the task published for call i.
Picked(i) == i \in DOMAIN results /\ results[i] # <<>>

\* The task published for call i has no execution left to come.
Finished(i) == Picked(i) /\ ~ \E m \in queue : m.cid = i

AllFailed(rs) == \A k \in 1..Len(rs) : rs[k].status = "failed"

Terminal(st) == st.status \in {"completed", "failed"}

\* ---------------------------------------------------------------- claims
\* C1: every call of submitImport that returns a jobId enqueues exactly one
\* work item {jobId, sourceRef} for the worker.
C1_SubmitEnqueuesOne ==
    [][SubmitReturns =>
        \E m \in queue' :
            /\ m \notin queue
            /\ queue' = queue \cup {m}
            /\ m.task_id = calls'[Len(calls')].task_id
            /\ m.folder_url = calls'[Len(calls')].folder_url]_vars

\* C2: submitImport inserts no ImageRecord: the Record Store is the same
\* before and after every call.
C2_SubmitLeavesRecords ==
    [][Len(calls') = Len(calls) + 1 => db' = db]_vars

\* C3: for every jobId returned by submitImport, the status held by the Job
\* State Store eventually becomes completed or failed.
C3_EventuallyTerminal ==
    \A i \in 1..MaxEvents :
        [](Returned(i) => <>(Returned(i) /\ Terminal(RedisGet(calls[i].task_id))))

C5_UniqueJobIds ==
    \A i, j \in 1..Len(calls) :
        (i # j /\ Returned(i) /\ Returned(j)) => calls[i].task_id # calls[j].task_id

\* C6: submitImport with an empty sourceRef is rejected and has no effect:
\* no call with an empty folder url is answered 200 and no JobState holds one.
C6_EmptySourceRefRejected ==
    /\ \A i \in 1..Len(calls) : Returned(i) => calls[i].folder_url # ""
    /\ \A k \in DOMAIN redis : redis[k].folder_url # ""

\* C7: a call of submitImport whose Job State Store write fails enqueues no
\* work item and inserts no ImageRecord.
C7_FailClosed ==
    [][(/\ Len(calls') = Len(calls) + 1
        /\ calls'[Len(calls')].code = 500
        /\ calls'[Len(calls')].detail = "redis")
       => (db' = db /\ queue' = queue)]_vars

\* C7 witness: a call has failed on its Job State Store write.
C7_StoreWriteFailed ==
    \E i \in 1..Len(calls) : calls[i].code = 500 /\ calls[i].detail = "redis"

\* C8: from the return of submitImport(s) with jobId j until the worker picks
\* the job up or the TTL elapses, get(j) is the state pending with sourceRef s
\* and imagesImported 0.  (The task id is the second of the call, so the TTL
\* has elapsed once the clock reaches task id + Expire.)
C8_PendingStateHeld ==
    \A i \in 1..Len(calls) :
        (Returned(i) /\ ~Picked(i) /\ clock < calls[i].task_id + Expire) =>
            LET st == RedisGet(calls[i].task_id) IN
                /\ st.status = "pending"
                /\ st.folder_url = calls[i].folder_url
                /\ st.images_imported = 0

\* C9: the worker writes status running on pickup, before the import runs:
\* once a job has been picked up its stored status is no longer pending.
C9_RunningOnPickup ==
    \A i \in DOMAIN results :
        (Picked(i) /\ calls[i].task_id \in DOMAIN redis) =>
            redis[calls[i].task_id].status # "pending"

\* C10: a job whose import failed on every attempt ends in state failed with
\* a non-empty error (while its state has not expired).
C10_FailedAfterAllAttempts ==
    \A i \in DOMAIN results :
        (Finished(i) /\ AllFailed(results[i]) /\ calls[i].task_id \in DOMAIN redis) =>
            LET st == redis[calls[i].task_id] IN
                st.status = "failed" /\ st.error # ""

\* ------------------------------------------------- vocabulary, continued
LastResult(c) == results[c][Len(results[c])]

\* The value returned by the execution that the step adds for task c.
NewResult(c) == results'[c][Len(results'[c])]

\* The step is an execution of the task body for task c.
ExecStep(c) == c \in DOMAIN results /\ Len(results'[c]) = Len(results[c]) + 1

HasCompleted(rs) == \E k \in 1..Len(rs) : rs[k].status = "completed"

\* The job ids for which an execution has returned completed.
CompletedJobs ==
    {calls[c].task_id : c \in {x \in DOMAIN results : HasCompleted(results[x])}}

\* The rows of the table that carry the job id t in their google_drive_id.
RowsOfJob(t) == {p \in 1..Len(db) : db[p].google_drive_id[1] = t}

\* The rows that share the (google_drive_id, source) of row p.
SameKey(p) ==
    {q \in 1..Len(db) : db[q].google_drive_id = db[p].google_drive_id
                        /\ db[q].source = db[p].source}

\* The calls answered 200 with job id t and the executions of tasks of job
\* id t that returned completed with at least one row.
Inserters(t) ==
    Cardinality({i \in 1..Len(calls) : Returned(i) /\ calls[i].task_id = t})
    + Cardinality({c \in DOMAIN results :
                     /\ calls[c].task_id = t
                     /\ \E k \in 1..Len(results[c]) :
                           /\ results[c][k].status = "completed"
                           /\ results[c][k].images_imported > 0})

\* --------------------------------------------------------------- claims
\* C11: a job whose import fails on the first attempt and succeeds on the
\* second ends in state completed, with imagesImported the number of records
\* the successful attempt inserted (while its state has not expired).
C11_CompletedAfterOneRetry ==
    \A i \in DOMAIN results :
        (/\ Len(results[i]) = 2
         /\ results[i][1].status = "failed"
         /\ results[i][2].status = "completed"
         /\ calls[i].task_id \in DOMAIN redis) =>
            LET st == redis[calls[i].task_id] IN
                /\ st.status = "completed"
                /\ st.images_imported = results[i][2].images_imported

C13_CompletedCountsRecords ==
    \A i \in DOMAIN results :
        (/\ Picked(i)
         /\ LastResult(i).status = "completed"
         /\ calls[i].task_id \in DOMAIN redis) =>
            LET st   == redis[calls[i].task_id]
                body == ListBody(db, TRUE, "none")
            IN  /\ st.status = "completed"
                /\ st.images_imported = Cardinality(RowsOfJob(calls[i].task_id))
                /\ LastResult(i).images_imported = Cardinality(RowsOfJob(calls[i].task_id))
                /\ \A k \in 1..(Len(body) - 1) : body[k].id > body[k + 1].id

C15_AbsentAfterTtl ==
    /\ \A i \in 1..Len(calls) :
          (Returned(i) /\ clock >= calls[i].task_id + Expire) =>
              RedisGet(calls[i].task_id) = Absent
    /\ \A k \in DOMAIN redis : clock < redis[k].created_at + Expire

\* C15 witness: a job was created and the TTL has elapsed since.
C15_TtlElapsed ==
    \E i \in 1..Len(calls) :
        /\ Returned(i)
        /\ clock >= calls[i].task_id + Expire
        /\ RedisGet(calls[i].task_id) = Absent

\* C16: listAll() never returns an error, and on an empty or not yet
\* initialized Record Store it returns the empty sequence.
C16_ListNeverFails ==
    [][listed'.n = listed.n + 1 =>
          /\ listed'.code = 200
          /\ db = <<>> => listed'.body = <<>>]_vars

\* C16 witness: listAll() was called on an empty Record Store.
C16_ListedEmptyStore ==
    listed.n > 0 /\ db = <<>> /\ listed.code = 200 /\ listed.body = <<>>

\* C17: failed is reported for a job only once its retries are exhausted, and
\* no attempt of the job runs afterwards: a failed result is the last result
\* of its task and no execution of the task is left to come.
C17_FailedOnlyWhenExhausted ==
    \A c \in DOMAIN results :
        \A k \in 1..Len(results[c]) :
            results[c][k].status = "failed" => (k = Len(results[c]) /\ Finished(c))

C19_AttemptAllOrNothing ==
    [][\A c \in DOMAIN results :
          ExecStep(c) =>
              /\ NewResult(c).status = "failed" => db' = db
              /\ ~HasCompleted(results[c])]_vars

\* C19 witness: a retry after a failed attempt inserted records.
C19_RetryInserted ==
    \E c \in DOMAIN results :
        /\ Len(results[c]) >= 2
        /\ results[c][1].status = "failed"
        /\ LastResult(c).status = "completed"
        /\ LastResult(c).images_imported > 0

\* C20: a call of submitImport that returns an error leaves no trace: neither
\* a JobState nor an ImageRecord is written by it.
C20_FailedSubmitLeavesNoTrace ==
    [][(Len(calls') = Len(calls) + 1 /\ calls'[Len(calls')].code = 500)
          => (redis' = redis /\ db' = db)]_vars

====
